---- MODULE Spec2Model ----
(***************************************************************************)
(* Model of the ingredient-line parser of src/src/lib.rs.                  *)
(*                                                                         *)
(* Text is a sequence of characters, each character a one-element string;  *)
(* the vulgar-fraction glyphs are written "<1/2>", "<1/7>", ... (one       *)
(* character each).  Every parser is an operator from a text s and a       *)
(* cursor i (the index of the next character) to a result                  *)
(*     [ok, cut, pos, val]                                                 *)
(* ok: the parser matched, pos: the cursor after the match, val: its       *)
(* value; cut: the failure is nom's Err::Failure, which alt and opt do not *)
(* recover from.  f32 values are exact rationals <<n, d>> in lowest terms  *)
(* (d = 0: an infinity or NaN); f32 rounding is not modelled.              *)
(***************************************************************************)
EXTENDS Integers, Sequences, FiniteSets, TLC

VARIABLES input, mode, parts, op, ret, shown

vars == <<input, mode, parts, op, ret, shown>>

----------------------------------------------------------------------------
(* Characters *)

Digit == {"0", "1", "2", "3", "4", "5", "6", "7", "8", "9"}

Lower ==
    {"a", "b", "c", "d", "e", "f", "g", "h", "i", "j", "k", "l", "m",
     "n", "o", "p", "q", "r", "s", "t", "u", "v", "w", "x", "y", "z"}

Upper ==
    {"A", "B", "C", "D", "E", "F", "G", "H", "I", "J", "K", "L", "M",
     "N", "O", "P", "Q", "R", "S", "T", "U", "V", "W", "X", "Y", "Z"}

\* character::complete::alpha1: ASCII letters
Alpha == Lower \cup Upper

\* character::complete::space0 / space1: spaces and tabs
Blank == {" ", "\t"}

DigitVal(c) ==
    CASE c = "0" -> 0 [] c = "1" -> 1 [] c = "2" -> 2 [] c = "3" -> 3
      [] c = "4" -> 4 [] c = "5" -> 5 [] c = "6" -> 6 [] c = "7" -> 7
      [] c = "8" -> 8 [] c = "9" -> 9

\* the two ranges of is_frac_char: U+00BC..U+00BE and U+2150..U+215E
is_frac_char(c) ==
    \/ c \in {"<1/4>", "<1/2>", "<3/4>"}
    \/ c \in {"<1/7>", "<1/9>", "<1/10>", "<1/3>", "<2/3>", "<1/5>", "<2/5>",
              "<3/5>", "<4/5>", "<1/6>", "<5/6>", "<1/8>", "<3/8>", "<5/8>",
              "<7/8>"}

----------------------------------------------------------------------------
(* f32 values as rationals *)

Abs(n) == IF n < 0 THEN -n ELSE n

RECURSIVE Gcd(_, _)
Gcd(a, b) == IF b = 0 THEN a ELSE Gcd(b, a % b)

Norm(n, d) ==
    IF d = 0 THEN <<(IF n > 0 THEN 1 ELSE IF n < 0 THEN -1 ELSE 0), 0>>
    ELSE LET g == Gcd(Abs(n), Abs(d))
             sg == IF d < 0 THEN -1 ELSE 1
         IN  <<(sg * n) \div g, (sg * d) \div g>>

RInt(n) == <<n, 1>>

RAdd(a, b) ==
    IF a[2] = 0 /\ b[2] = 0 THEN Norm(IF a[1] = b[1] THEN a[1] ELSE 0, 0)
    ELSE Norm(a[1] * b[2] + b[1] * a[2], a[2] * b[2])

RDiv(a, b) == Norm(a[1] * b[2], a[2] * b[1])

RECURSIVE Pow10(_)
Pow10(k) == IF k = 0 THEN 1 ELSE 10 * Pow10(k - 1)

----------------------------------------------------------------------------
(* Parser results and the primitive parsers of nom *)

\* The element of a one-element set.  One({F(x) : x \in {e}}) is F(e) with e
\* evaluated once: how a parser's result is bound before it is inspected.
One(S) == CHOOSE r \in S : TRUE

Ok(j, v) == [ok |-> TRUE, cut |-> FALSE, pos |-> j, val |-> v]
Err(i) == [ok |-> FALSE, cut |-> FALSE, pos |-> i, val |-> <<>>]
Failure(i) == [ok |-> FALSE, cut |-> TRUE, pos |-> i, val |-> <<>>]

At(s, i) == IF i >= 1 /\ i <= Len(s) THEN s[i] ELSE "<eof>"

\* the cursor after the longest run of characters of C starting at i
RunEnd(s, i, C) ==
    IF i > Len(s) THEN i
    ELSE CHOOSE j \in i..(Len(s) + 1) :
             /\ \A k \in i..(j - 1) : s[k] \in C
             /\ (j = Len(s) + 1 \/ s[j] \notin C)

\* bytes::complete::tag
tag(s, i, t) ==
    IF i + Len(t) - 1 <= Len(s) /\ \A k \in 1..Len(t) : s[i + k - 1] = t[k]
    THEN Ok(i + Len(t), t)
    ELSE Err(i)

Slice(s, i, j) == IF j <= i THEN <<>> ELSE SubSeq(s, i, j - 1)

RECURSIVE DigitsVal(_, _, _)
\* the number written by the digits s[i..j-1]
DigitsVal(s, i, j) ==
    IF j <= i THEN 0 ELSE 10 * DigitsVal(s, i, j - 1) + DigitVal(s[j - 1])

\* opt(alt((char('+'), char('-')))): the cursor after an optional sign
sign_end(s, i) == IF At(s, i) \in {"+", "-"} THEN i + 1 ELSE i

\* v * 10^ex, or v / 10^ex for a negative exponent
Scale(v, neg, ex) ==
    IF neg THEN Norm(v[1], v[2] * Pow10(ex)) ELSE Norm(v[1] * Pow10(ex), v[2])

\* cut(digit1) of the exponent: its digits are s[e0..e-1]
float_exponent(s, f, e0, e, v) ==
    IF e = e0 THEN Failure(e0)
    ELSE Ok(e, Scale(v, At(s, f + 1) = "-", DigitsVal(s, e0, e)))

\* opt(tuple((alt((char('e'), char('E'))), opt(sign), cut(digit1)))) at cursor f,
\* v the value of the mantissa
float_e(s, f, v) ==
    IF At(s, f) \notin {"e", "E"} THEN Ok(f, v)
    ELSE One({float_exponent(s, f, e0, RunEnd(s, e0, Digit), v) :
                 e0 \in {sign_end(s, f + 1)}})

\* the value of the mantissa: integer digits s[i1..d-1], fraction digits s[f0..f-1]
Mantissa(s, neg, i1, d, f0, f) ==
    Norm((IF neg THEN -1 ELSE 1)
             * (DigitsVal(s, i1, d) * Pow10(f - f0) + DigitsVal(s, f0, f)),
         Pow10(f - f0))

\* alt((digit1 [. [digit1]], . digit1)) matched up to f, or not at all
float_mantissa(s, i, i1, d, f0, f) ==
    IF d > i1 \/ (At(s, i1) = "." /\ f > i1 + 1)
    THEN One({float_e(s, f, v) : v \in {Mantissa(s, At(s, i) = "-", i1, d, f0, f)}})
    ELSE Err(i)

\* the cursor where the fraction digits start: after the "." if there is one
frac_start(s, i1, d) ==
    IF d > i1 THEN (IF At(s, d) = "." THEN d + 1 ELSE d) ELSE i1 + 1

float_frac(s, i, i1, d) ==
    One({float_mantissa(s, i, i1, d, f0, RunEnd(s, f0, Digit)) :
            f0 \in {frac_start(s, i1, d)}})

float_int(s, i, i1) ==
    One({float_frac(s, i, i1, d) : d \in {RunEnd(s, i1, Digit)}})

\* number::complete::float: [+-] (digits [. [digits]] | . digits)
\* [(e|E) [+-] cut(digits)], then the text converted to f32
float(s, i) == float_int(s, i, sign_end(s, i))

v_frac_to_num(c) ==
    CASE c = "<3/4>" -> [ok |-> TRUE, val |-> Norm(3, 4)]
      [] c = "<1/8>" -> [ok |-> TRUE, val |-> Norm(1, 8)]
      [] c = "<1/4>" -> [ok |-> TRUE, val |-> Norm(1, 4)]
      [] c = "<1/3>" -> [ok |-> TRUE, val |-> Norm(1, 3)]
      [] c = "<1/2>" -> [ok |-> TRUE, val |-> Norm(1, 2)]
      [] OTHER -> [ok |-> FALSE, val |-> RInt(0)]

\* faulty variant: the error of v_frac_to_num is passed on
v_fraction_strict(s, i) ==
    IF is_frac_char(At(s, i)) /\ v_frac_to_num(At(s, i)).ok
    THEN Ok(i + 1, v_frac_to_num(At(s, i)).val)
    ELSE Err(i)

v_fraction(s, i) ==
    IF is_frac_char(At(s, i))
    THEN LET r == v_frac_to_num(At(s, i))
         IN  Ok(i + 1, (IF r.ok THEN r.val ELSE RInt(0)))
    ELSE Err(i)

\* the map closure of n_fraction: res.0 / res.2
n_fraction_div(a, b) == IF ~b.ok THEN b ELSE Ok(b.pos, RDiv(a.val, b.val))

\* tag("/") and the second float of n_fraction, a the first float's result
n_fraction_slash(s, a) ==
    IF ~a.ok THEN a
    ELSE IF At(s, a.pos) # "/" THEN Err(a.pos)
    ELSE One({n_fraction_div(a, b) : b \in {float(s, a.pos + 1)}})

\* tuple((float, tag("/"), float))
n_fraction(s, i) == One({n_fraction_slash(s, a) : a \in {float(s, i)}})

text_number(s, i) ==
    IF tag(s, i, <<"o", "n", "e">>).ok THEN Ok(i + 3, RInt(1)) ELSE Err(i)

\* the map closure of fraction_number: num1 + frac, num1 = 0.0 for None
fraction_sum(num1, frac) ==
    IF frac.ok THEN Ok(frac.pos, RAdd(num1, frac.val)) ELSE frac

\* tuple((opt(tuple((float, space0))), v_fraction)), w the float's result
fraction_v(s, i, w) ==
    IF w.ok
    THEN One({fraction_sum(w.val, v) : v \in {v_fraction(s, RunEnd(s, w.pos, Blank))}})
    ELSE One({fraction_sum(RInt(0), v) : v \in {v_fraction(s, i)}})

\* tuple((opt(tuple((float, space1))), n_fraction)), w the float's result
fraction_n(s, i, w) ==
    IF w.ok /\ RunEnd(s, w.pos, Blank) > w.pos
    THEN One({fraction_sum(w.val, n) : n \in {n_fraction(s, RunEnd(s, w.pos, Blank))}})
    ELSE One({fraction_sum(RInt(0), n) : n \in {n_fraction(s, i)}})

\* the alt of fraction_number, v the result of its first alternative
fraction_alt(s, i, w, v) ==
    IF w.cut THEN w
    ELSE IF v.ok THEN v
    ELSE fraction_n(s, i, w)

fraction_float(s, i, w) == One({fraction_alt(s, i, w, v) : v \in {fraction_v(s, i, w)}})

fraction_number(s, i) == One({fraction_float(s, i, w) : w \in {float(s, i)}})

\* faulty variant: the bare decimal is tried before the fraction forms
num_alt_float_first(s, i, fr) ==
    One({(IF fl.ok \/ fl.cut THEN fl
          ELSE IF text_number(s, i).ok THEN text_number(s, i)
          ELSE fr) : fl \in {float(s, i)}})

\* alt((fraction_number, text_number, float)), fr the first alternative's result
num_alt(s, i, fr) ==
    IF fr.ok \/ fr.cut THEN fr
    ELSE IF text_number(s, i).ok THEN text_number(s, i)
    ELSE float(s, i)

num(s, i) == One({num_alt(s, i, fr) : fr \in {fraction_number(s, i)}})

\* the map closure of num_or_range: (val, upper), u the result of the opt
range_upper(val, u) ==
    IF u.cut THEN u
    ELSE IF u.ok THEN Ok(u.pos, [value |-> val.val, upper |-> <<u.val>>])
    ELSE Ok(val.pos, [value |-> val.val, upper |-> <<>>])

\* tuple((space0, tag("-"), space0, num)) from cursor s1, after the first space0
range_dash(s, s1) ==
    IF At(s, s1) = "-" THEN num(s, RunEnd(s, s1 + 1, Blank)) ELSE Err(s1)

range_val(s, val) ==
    IF ~val.ok THEN val
    ELSE One({range_upper(val, u) : u \in {range_dash(s, RunEnd(s, val.pos, Blank))}})

\* tuple((num, opt(tuple((space0, tag("-"), space0, num)))))
num_or_range(s, i) == One({range_val(s, val) : val \in {num(s, i)}})

Amount(unit, value, upper) ==
    [unit |-> unit, value |-> value, upper_value |-> upper]

\* space0, alpha1 and the map closure of amount1, value the num_or_range result
amount1_unit(s, value) ==
    LET sp == RunEnd(s, value.pos, Blank)
        e == RunEnd(s, sp, Alpha)
    IN  IF ~value.ok THEN value
        ELSE IF e = sp THEN Err(sp)
        ELSE Ok(e, <<Amount(Slice(s, sp, e), value.val.value, value.val.upper)>>)

\* tuple((opt(tag("about ")), num_or_range, space0, alpha1))
amount1(s, i) ==
    IF tag(s, i, <<"a", "b", "o", "u", "t", " ">>).ok
    THEN One({amount1_unit(s, value) : value \in {num_or_range(s, i + 6)}})
    ELSE One({amount1_unit(s, value) : value \in {num_or_range(s, i)}})

\* alt((tag("; "), tag(" / "), tag(" "), tag(", "), tag("/")))
separator(s, i) ==
    IF tag(s, i, <<";", " ">>).ok THEN Ok(i + 2, <<>>)
    ELSE IF tag(s, i, <<" ", "/", " ">>).ok THEN Ok(i + 3, <<>>)
    ELSE IF tag(s, i, <<" ">>).ok THEN Ok(i + 1, <<>>)
    ELSE IF tag(s, i, <<",", " ">>).ok THEN Ok(i + 2, <<>>)
    ELSE IF tag(s, i, <<"/">>).ok THEN Ok(i + 1, <<>>)
    ELSE Err(i)

RECURSIVE parse_n_amount(_, _)
RECURSIVE amt_parens(_, _)
RECURSIVE amount2(_, _)

\* char(')') of amt_parens, r the result of parse_n_amount
amt_parens_close(s, r) ==
    IF ~r.ok THEN r
    ELSE IF At(s, r.pos) # ")" THEN Err(r.pos)
    ELSE Ok(r.pos + 1, r.val)

\* delimited(char('('), parse_n_amount, char(')'))
amt_parens(s, i) ==
    IF At(s, i) # "(" THEN Err(i)
    ELSE One({amt_parens_close(s, r) : r \in {parse_n_amount(s, i + 1)}})

\* the map closure of amount2: a.into_iter().chain(b.into_iter()).collect()
amount2_chain(a, b) == IF ~b.ok THEN b ELSE Ok(b.pos, a.val \o b.val)

\* faulty variant: the second position takes a whole group again
amount2_alt_group(s, j, p) == IF p.ok \/ p.cut THEN p ELSE parse_n_amount(s, j)

\* alt((amt_parens, amount1)), p the result of amt_parens
amount2_alt(s, j, p) == IF p.ok \/ p.cut THEN p ELSE amount1(s, j)

amount2_second(s, j) == One({amount2_alt(s, j, p) : p \in {amt_parens(s, j)}})

amount2_sep(s, a, sep) ==
    IF ~sep.ok THEN sep
    ELSE One({amount2_chain(a, b) : b \in {amount2_second(s, sep.pos)}})

amount2_first(s, a) ==
    IF ~a.ok THEN a
    ELSE One({amount2_sep(s, a, sep) : sep \in {separator(s, a.pos)}})

\* separated_pair(amount1, separator, alt((amt_parens, amount1)))
amount2(s, i) == One({amount2_first(s, a) : a \in {amount1(s, i)}})

\* faulty variant: the single amount is tried first
amount_alt_single_first(s, i, two) ==
    One({(IF one.ok \/ one.cut THEN one ELSE two) : one \in {amount1(s, i)}})

\* alt((amount2, amount1)), two the result of amount2
amount_alt(s, i, two) == IF two.ok \/ two.cut THEN two ELSE amount1(s, i)

parse_n_amount(s, i) == One({amount_alt(s, i, two) : two \in {amount2(s, i)}})

\* the result of a public entry point: Ok(value) or Err(message)
Result(r) == [ok |-> r.ok, val |-> (IF r.ok THEN r.val ELSE <<>>)]

parse_amount(s) == One({Result(r) : r \in {parse_n_amount(s, 1)}})

\* alt((alpha1, space1, tag("-"))): the characters many1(text) runs over
TextChar == Alpha \cup Blank \cup {"-"}

\* character::complete::not_line_ending: up to the first \n or \r\n; a \r
\* that no \n follows is an error
not_line_ending(s, i) ==
    LET Eol == {k \in i..Len(s) : s[k] \in {"\r", "\n"}}
        e == CHOOSE k \in Eol : \A l \in Eol : k <= l
    IN  IF Eol = {} THEN Ok(Len(s) + 1, Slice(s, i, Len(s) + 1))
        ELSE IF s[e] = "\r" /\ At(s, e + 1) # "\n" THEN Err(i)
        ELSE Ok(e, Slice(s, i, e))

\* faulty variant: only the leading spaces are removed
trim_start_matches(t) ==
    LET Keep == {k \in 1..Len(t) : t[k] # " "}
        lo == CHOOSE k \in Keep : \A l \in Keep : k <= l
    IN  IF Keep = {} THEN <<>> ELSE SubSeq(t, lo, Len(t))

\* str::trim_matches(' ')
trim_matches(t) ==
    LET Keep == {k \in 1..Len(t) : t[k] # " "}
        lo == CHOOSE k \in Keep : \A l \in Keep : k <= l
        hi == CHOOSE k \in Keep : \A l \in Keep : l <= k
    IN  IF Keep = {} THEN <<>> ELSE SubSeq(t, lo, hi)

Whole == <<"w", "h", "o", "l", "e">>

NoTuple == [ok |-> FALSE]

\* opt(tag(", ")) and not_line_ending, from cursor p4
tuple_modifier(s, lead, p2, p3, trail, p4) ==
    LET comma == tag(s, p4, <<",", " ">>).ok
        m == not_line_ending(s, (IF comma THEN p4 + 2 ELSE p4))
    IN  IF ~m.ok THEN NoTuple
        ELSE [ok |-> TRUE,
              amounts |-> (IF lead.ok THEN <<lead.val>> ELSE <<>>),
              name_chunks |-> (IF p3 > p2 THEN <<Slice(s, p2, p3)>> ELSE <<>>),
              amounts2 |-> (IF trail.ok THEN <<trail.val>> ELSE <<>>),
              comma |-> comma,
              modifier_chunks |-> m.val,
              next_input |-> m.pos]

\* opt(amt_parens), trail its result at cursor p3
tuple_trail(s, lead, p2, p3, trail) ==
    IF trail.cut THEN NoTuple
    ELSE tuple_modifier(s, lead, p2, p3, trail, (IF trail.ok THEN trail.pos ELSE p3))

\* space0 and opt(many1(text)): the name runs from p2 over TextChar
tuple_text(s, lead, p2, p3) ==
    One({tuple_trail(s, lead, p2, p3, trail) : trail \in {amt_parens(s, p3)}})

tuple_name(s, lead, p2) ==
    One({tuple_text(s, lead, p2, p3) : p3 \in {RunEnd(s, p2, TextChar)}})

\* opt(parse_n_amount), lead its result
tuple_lead(s, lead) ==
    IF lead.cut THEN NoTuple
    ELSE One({tuple_name(s, lead, p2) :
                 p2 \in {RunEnd(s, (IF lead.ok THEN lead.pos ELSE 1), Blank)}})

\* the tuple parse_ingredient's grammar returns, before its map closure
ingredient_tuple(s) == One({tuple_lead(s, lead) : lead \in {parse_n_amount(s, 1)}})

\* faulty variant: the number of amounts is not looked at
normalizes_unguarded(name, amounts) == Len(name) = 0

\* the condition of the rule: name.len() == 0 && amounts.len() == 1
normalizes(name, amounts) == Len(name) = 0 /\ Len(amounts) = 1

\* amounts[0]: the index operator of Vec panics when the list is empty
first_panics(amounts) == Len(amounts) = 0

\* name = amounts[0].unit.clone(); amounts[0].unit = "whole".to_string()
reclassify(name, amounts) ==
    IF first_panics(amounts)
    THEN [panic |-> TRUE, name |-> name, amounts |-> amounts]
    ELSE [panic |-> FALSE,
          name |-> amounts[1].unit,
          amounts |-> [amounts EXCEPT ![1].unit = Whole]]

\* faulty variant: the rule applies whenever there is an amount, whatever their number
normalize_any(name, amounts) ==
    IF Len(name) = 0 /\ Len(amounts) >= 1
    THEN reclassify(name, amounts)
    ELSE [panic |-> FALSE, name |-> name, amounts |-> amounts]

\* if name.len() == 0 && amounts.len() == 1 { name = unit; unit = "whole" }
normalize(name, amounts) ==
    IF normalizes(name, amounts)
    THEN reclassify(name, amounts)
    ELSE [panic |-> FALSE, name |-> name, amounts |-> amounts]

\* faulty variant: the amounts after the name are put first
chain_reversed(amounts, a) == a \o amounts

\* amounts.into_iter().chain(a.into_iter()).collect()
chain(amounts, a) == amounts \o a

\* faulty variant: the text is kept whatever its length
modifier_always(m) == <<m>>

\* match m.chars().count() { 0 => None, _ => Some(m.to_string()) }
modifier_of(m) == IF Len(m) = 0 THEN <<>> ELSE <<m>>

\* n.join("").trim_matches(' '), "" for None
name_of(name_chunks) ==
    IF name_chunks # <<>> THEN trim_matches(name_chunks[1]) ELSE <<>>

\* the amounts of the two groups, the second chained after the first
amounts_of(amounts, amounts2) ==
    IF amounts2 # <<>>
    THEN chain((IF amounts # <<>> THEN amounts[1] ELSE <<>>), amounts2[1])
    ELSE (IF amounts # <<>> THEN amounts[1] ELSE <<>>)

Ingredient(n, modifier) ==
    [name |-> n.name, amounts |-> n.amounts, modifier |-> modifier]

\* the map closure of parse_ingredient, n the normalized name and amounts; a
\* panic of the closure unwinds through the call: no value is returned
ingredient_of(t, n) ==
    IF n.panic
    THEN [ok |-> FALSE, panic |-> TRUE, val |-> <<>>, raw |-> t]
    ELSE [ok |-> TRUE, panic |-> FALSE,
          val |-> Ingredient(n, modifier_of(t.modifier_chunks)), raw |-> t]

ingredient_result(t) ==
    IF t.ok
    THEN One({ingredient_of(t, n) :
                 n \in {normalize(name_of(t.name_chunks),
                                  amounts_of(t.amounts, t.amounts2))}})
    ELSE [ok |-> FALSE, panic |-> FALSE, val |-> <<>>, raw |-> t]

parse_ingredient(s) == One({ingredient_result(t) : t \in {ingredient_tuple(s)}})

\* from_str: Ok(r.1), or Err("failed to parse ...")
from_str(s) == parse_ingredient(s)

----------------------------------------------------------------------------
(* Display *)

DigitChar(n) ==
    CASE n = 0 -> "0" [] n = 1 -> "1" [] n = 2 -> "2" [] n = 3 -> "3"
      [] n = 4 -> "4" [] n = 5 -> "5" [] n = 6 -> "6" [] n = 7 -> "7"
      [] n = 8 -> "8" [] n = 9 -> "9"

RECURSIVE NatDigits(_)
NatDigits(n) ==
    IF n < 10 THEN <<DigitChar(n)>>
    ELSE Append(NatDigits(n \div 10), DigitChar(n % 10))

RECURSIVE FracDigits(_, _)
\* n written with exactly k digits
FracDigits(n, k) ==
    IF k = 0 THEN <<>>
    ELSE Append(FracDigits(n \div 10, k - 1), DigitChar(n % 10))

\* the values whose f32 Display text is their exact decimal expansion: at
\* most three fraction digits and six significant digits
Renderable(v) ==
    \/ v[2] = 0
    \/ (1000 % v[2] = 0 /\ Abs(v[1]) * (1000 \div v[2]) < 1000000)

\* impl Display for f32: the shortest decimal text that reads back as the value
f32_to_string(v) ==
    IF v[2] = 0
    THEN (IF v[1] > 0 THEN <<"i", "n", "f">>
          ELSE IF v[1] < 0 THEN <<"-", "i", "n", "f">>
          ELSE <<"N", "a", "N">>)
    ELSE LET k == CHOOSE j \in 0..3 :
                      /\ Pow10(j) % v[2] = 0
                      /\ \A l \in 0..(j - 1) : Pow10(l) % v[2] # 0
             scaled == Abs(v[1]) * (Pow10(k) \div v[2])
             sign == IF v[1] < 0 THEN <<"-">> ELSE <<>>
             frac == IF k = 0 THEN <<>>
                     ELSE <<".">> \o FracDigits(scaled % Pow10(k), k)
         IN  sign \o NatDigits(scaled \div Pow10(k)) \o frac

\* impl fmt::Display for Amount: write!(f, "{} {}", self.value, self.unit)
amount_to_string(a) == f32_to_string(a.value) \o <<" ">> \o a.unit

RECURSIVE join(_, _)
\* [String]::join
join(strs, sep) ==
    IF Len(strs) = 0 THEN <<>>
    ELSE IF Len(strs) = 1 THEN strs[1]
    ELSE strs[1] \o sep \o join(Tail(strs), sep)

\* impl fmt::Display for Ingredient
ingredient_to_string(ing) ==
    LET amounts == [k \in 1..Len(ing.amounts) |-> amount_to_string(ing.amounts[k])]
        modifier == IF ing.modifier # <<>>
                    THEN <<",", " ">> \o ing.modifier[1]
                    ELSE <<>>
        amount_list == IF Len(amounts) = 0
                       THEN <<"n", "/", "a">>
                       ELSE join(amounts, <<" ", "/", " ">>) \o <<" ">>
    IN  amount_list \o ing.name \o modifier

----------------------------------------------------------------------------
(* The texts the parsers are called on.  A text is typed either one        *)
(* character at a time (every text over RawChars of at most MaxRaw         *)
(* characters), or as chunks that fill the slots of one of three tables    *)
(* from left to right, any slot left out: numerals and ranges, amount      *)
(* groups, ingredient lines.  parts records the chunks typed.              *)

MaxRaw == 3

MaxLen == 24

\* the characters typed one at a time; exponent forms are typed as chunks
\* (Singles), their exponents kept to one digit
RawChars ==
    {"1", "2", ".", "/", "-", " ", ",", ";", "(", ")", "g", "c", "<1/2>", "<1/7>", "!"}

\* numerals: the leading number
Wholes ==
    {<<"1">>,
     <<"2", ".", "5">>,
     <<"o", "n", "e">>,
     <<"1", "2">>}

\* numerals: the blanks between the number and its fraction
Gaps ==
    {<<" ">>,
     <<" ", " ">>}

\* numerals: the fraction
Fracs ==
    {<<"1", "/", "2">>,
     <<"<1/2>">>,
     <<"<1/7>">>,
     <<"2", "/", "3">>}

\* ranges: the dash and the blanks around it
Dashes ==
    {<<"-">>,
     <<" ", "-", " ">>,
     <<" ", "-">>,
     <<"-", " ">>,
     <<" ", " ", "-", " ", " ">>}

\* ranges: the upper numeral
Wholes2 ==
    {<<"2">>}

\* ranges: the fraction of the upper numeral
Fracs2 ==
    {<<"1", "/", "2">>,
     <<"<1/4>">>}

\* the unit, with or without a blank before it
Units ==
    {<<" ", "g">>,
     <<"c">>,
     <<" ", "c", "u", "p">>}

\* single amounts
Singles ==
    {<<"1", " ", "g">>,
     <<"2", ".", "5", "c">>,
     <<"a", "b", "o", "u", "t", " ", "1", " ", "g">>,
     <<"o", "n", "e", " ", "g">>,
     <<"1", "-", "2", " ", "g">>,
     <<"1", " ", "-", " ", "2", " ", "g">>,
     <<"<1/2>", " ", "c">>,
     <<"1", " ", "<1/2>", "c">>,
     <<"1", " ", "1", "/", "2", " ", "g">>,
     <<"1", "/", "2", " ", "g">>,
     <<"-", "1", " ", "g">>,
     <<".", "5", " ", "g">>,
     <<"1", "e", "2", " ", "g">>,
     <<"1", "e", " ", "g">>}

\* the separators of amount2, and two that are none of them
Seps ==
    {<<";", " ">>,
     <<" ", "/", " ">>,
     <<" ">>,
     <<",", " ">>,
     <<"/">>,
     <<",">>,
     <<" ", ";", " ">>}

\* second amounts: single ones, parenthesized groups, and a number whose
\* exponent has no digits
Seconds ==
    {<<"2", " ", "c">>,
     <<"1", "e", "g", "g">>,
     <<"a", "b", "o", "u", "t", " ", "2", " ", "c">>,
     <<"o", "n", "e", " ", "c">>,
     <<"2", "-", "3", " ", "c">>,
     <<"1", " ", "1", "/", "2", "c">>,
     <<"-", "2", " ", "c">>,
     <<"(", "2", " ", "c", ")">>,
     <<"(", "2", " ", "c", ";", " ", "1", " ", "b", ")">>,
     <<"(", "2", " ", "c", " ", "(", "1", " ", "b", ")", ")">>,
     <<"(", "2", " ", "c">>}

\* lines: the leading amount group
Leads ==
    {<<"1", " ", "g">>,
     <<"2", ".", "5", "c">>,
     <<"o", "n", "e", " ", "g">>,
     <<"1", " ", "g", " ", "/", " ", "2", " ", "c">>,
     <<"1", " ", "g", " ", "(", "2", " ", "c", " ", "(", "1", " ", "b", ")", ")">>,
     <<"1", "-", "2", " ", "g">>,
     <<"1">>,
     <<"a", "b", "o", "u", "t", " ", "1", " ", "g">>,
     <<"1", "2", " ", "c", "u", "p", "s">>}

\* lines: the name
Names ==
    {<<" ", "x">>,
     <<" ", "x", " ", "y">>,
     <<" ", "o", "n", "e", " ", "y">>,
     <<" ", "o", "n", "e", "x">>,
     <<" ", "x", "-", "y">>,
     <<" ", "x", " ">>,
     <<"x">>,
     <<" ", "f", "l", "o", "u", "r">>}

\* lines: the parenthetical group after the name
Trails ==
    {<<"(", "1", " ", "d", ")">>,
     <<"(", "1", " ", "d", ";", " ", "2", " ", "e", ")">>,
     <<"(", "1", " ", "d">>,
     <<"(", "z", ")">>}

\* lines: the separator of the modifier, and others
Commas ==
    {<<",", " ">>,
     <<",">>,
     <<"!">>}

\* lines: the text of the modifier
Mods ==
    {<<"m">>,
     <<"m", " ", "1", ",", " ", "n">>,
     <<" ">>}

NumTable == <<Wholes, Gaps, Fracs, Dashes, Wholes2, Gaps, Fracs2, Units>>

AmtTable == <<Singles, Seps, Seconds>>

LineTable == <<Leads, Names, Trails, Commas, Mods>>

Tables == {"num", "amt", "line"}

Table(t) ==
    CASE t = "num" -> NumTable
      [] t = "amt" -> AmtTable
      [] t = "line" -> LineTable

LastSlot == IF parts = <<>> THEN 0 ELSE parts[Len(parts)].k

\* the chunk typed into slot k, <<>> when the slot was left out
Part(k) ==
    LET Ks == {j \in 1..Len(parts) : parts[j].k = k}
    IN  IF Ks = {} THEN <<>> ELSE parts[CHOOSE j \in Ks : TRUE].c

Typed(k) == \E j \in 1..Len(parts) : parts[j].k = k

Init ==
    /\ input = <<>>
    /\ mode = "start"
    /\ parts = <<>>
    /\ op = "none"
    /\ ret = <<>>
    /\ shown = <<>>

TypeChar(c) ==
    /\ op = "none"
    /\ mode \in {"start", "raw"}
    /\ Len(input) < MaxRaw
    /\ input' = Append(input, c)
    /\ mode' = "raw"
    /\ UNCHANGED <<parts, op, ret, shown>>

TypeChunk(t, k, c) ==
    /\ op = "none"
    /\ mode \in {"start", t}
    /\ k > LastSlot
    /\ Len(input) + Len(c) <= MaxLen
    /\ input' = input \o c
    /\ parts' = Append(parts, [k |-> k, c |-> c])
    /\ mode' = t
    /\ UNCHANGED <<op, ret, shown>>

\* from_str(input, _) / Ingredient::try_from(input)
CallFromStr ==
    /\ op = "none"
    /\ op' = "from_str"
    /\ ret' = from_str(input)
    /\ UNCHANGED <<input, mode, parts, shown>>

\* parse_amount(input)
CallParseAmount ==
    /\ op = "none"
    /\ op' = "parse_amount"
    /\ ret' = parse_amount(input)
    /\ UNCHANGED <<input, mode, parts, shown>>

\* num(input), as the unit tests call the numeral parsers
CallNum ==
    /\ op = "none"
    /\ op' = "num"
    /\ ret' = num(input, 1)
    /\ UNCHANGED <<input, mode, parts, shown>>

\* to_string() of the Ingredient from_str returned
CallToString ==
    /\ op = "from_str"
    /\ ret.ok
    /\ \A k \in 1..Len(ret.val.amounts) : Renderable(ret.val.amounts[k].value)
    /\ op' = "to_string"
    /\ shown' = ingredient_to_string(ret.val)
    /\ UNCHANGED <<input, mode, parts, ret>>

Next ==
    \/ \E c \in RawChars : TypeChar(c)
    \/ \E t \in Tables : \E k \in 1..Len(Table(t)) : \E c \in Table(t)[k] :
           TypeChunk(t, k, c)
    \/ CallFromStr
    \/ CallParseAmount
    \/ CallNum
    \/ CallToString

Spec == Init /\ [][Next]_vars

----------------------------------------------------------------------------
(* Claims *)

Parsed == op \in {"from_str", "to_string"} /\ ret.ok

\* a text of letters and single spaces that neither starts nor ends with a space
Words(s, a, b) ==
    /\ a < b
    /\ \A k \in a..(b - 1) : s[k] \in Alpha \cup {" "}
    /\ s[a] # " " /\ s[b - 1] # " "
    /\ \A k \in a..(b - 2) : ~(s[k] = " " /\ s[k + 1] = " ")

\* s[1..e-1] is "<d> <u> <w1> ... <wk>": the cursors of its pieces, d a plain
\* decimal number, u a word, w1..wk words separated by single spaces
PlainLine(s, e) ==
    LET d1 == RunEnd(s, 1, Digit)
        f0 == IF At(s, d1) = "." THEN d1 + 1 ELSE d1
        d2 == RunEnd(s, f0, Digit)
        u == RunEnd(s, d2 + 1, Alpha)
    IN  [ok |-> /\ d1 > 1
                /\ (f0 > d1 => d2 > f0)
                /\ At(s, d2) = " "
                /\ u > d2 + 1
                /\ At(s, u) = " "
                /\ Words(s, u + 1, e),
         value |-> Mantissa(s, FALSE, 1, d1, f0, d2),
         unit |-> Slice(s, d2 + 1, u),
         name |-> Slice(s, u + 1, e)]

\* the cursor of the first ", " of s, Len(s) + 1 when there is none
CommaAt(s) ==
    LET Cs == {k \in 1..Len(s) : s[k] = "," /\ At(s, k + 1) = " "}
    IN  IF Cs = {} THEN Len(s) + 1 ELSE CHOOSE k \in Cs : \A l \in Cs : k <= l

\* C1: a line "<d> <u> <w1> ... <wk>" parses to name "w1 ... wk", the one amount
\* {u, d, no upper value} and no modifier; followed by ", <text>" it parses to the
\* same name and amount with the modifier <text>.
C1_PlainLineParses ==
    LET e == CommaAt(input)
        line == PlainLine(input, e)
        text == Slice(input, e + 2, Len(input) + 1)
    IN  (op = "from_str" /\ line.ok /\ (e <= Len(input) => text # <<>>))
            => /\ ret.ok
               /\ ret.val.name = line.name
               /\ ret.val.amounts = <<Amount(line.unit, line.value, <<>>)>>
               /\ ret.val.modifier = (IF e <= Len(input) THEN <<text>> ELSE <<>>)

RECURSIVE TrimSpaces(_)
\* t without its leading and trailing spaces
TrimSpaces(t) ==
    IF t = <<>> THEN t
    ELSE IF Head(t) = " " THEN TrimSpaces(Tail(t))
    ELSE IF t[Len(t)] = " " THEN TrimSpaces(SubSeq(t, 1, Len(t) - 1))
    ELSE t

\* the name text and the amounts of the raw parse: the name chunks joined and
\* trimmed, the leading amounts followed by those of the group after the name
RawName == IF ret.raw.name_chunks = <<>> THEN <<>> ELSE TrimSpaces(ret.raw.name_chunks[1])

RawLead == IF ret.raw.amounts = <<>> THEN <<>> ELSE ret.raw.amounts[1]

RawTrail == IF ret.raw.amounts2 = <<>> THEN <<>> ELSE ret.raw.amounts2[1]

RawAmounts == RawLead \o RawTrail

\* C2: when the raw parse has an empty name and exactly one amount, the result's
\* name is that amount's unit and the amount's unit is "whole", value and upper
\* value unchanged; otherwise the name is the trimmed name text and no amount
\* is rewritten.
C2_Normalization ==
    Parsed =>
        IF RawName = <<>> /\ Len(RawAmounts) = 1
        THEN /\ ret.val.name = RawAmounts[1].unit
             /\ ret.val.amounts =
                    <<Amount(Whole, RawAmounts[1].value, RawAmounts[1].upper_value)>>
        ELSE /\ ret.val.name = RawName
             /\ ret.val.amounts = RawAmounts

C2_Witness ==
    /\ op = "from_str" /\ ret.ok
    /\ RawName = <<>> /\ Len(RawAmounts) = 1
    /\ RawAmounts[1].unit = <<"g">>
    /\ ret.val.name = <<"g">>
    /\ ret.val.amounts[1].unit = Whole

\* none of the alternatives of the line grammar matches at the start of s
NothingMatches(s) ==
    /\ ~parse_n_amount(s, 1).ok
    /\ At(s, 1) \notin TextChar
    /\ ~amt_parens(s, 1).ok
    /\ ~tag(s, 1, <<",", " ">>).ok

\* C3: a non-empty line on which no alternative of the grammar matches at
\* position 0 yields a syntax error and no Ingredient.
C3_NoMatchIsAnError ==
    (op = "from_str" /\ input # <<>> /\ NothingMatches(input)) => ~ret.ok

\* C4: the modifier is present only if ", " was consumed after the name and the
\* group after it, and is then the text after that separator up to the end of
\* the line; without the separator the modifier is absent.
C4_ModifierFollowsComma ==
    Parsed =>
        /\ ret.val.modifier # <<>> =>
               LET m == ret.val.modifier[1]
                   at == Len(input) - Len(m) + 1
               IN  /\ ret.raw.comma
                   /\ Slice(input, at, Len(input) + 1) = m
                   /\ At(input, at - 2) = "," /\ At(input, at - 1) = " "
        /\ ~ret.raw.comma => ret.val.modifier = <<>>

\* the text an amount's unit was parsed from: its unit, or the name the
\* normalization moved it to
UnitText(k) ==
    IF RawName = <<>> /\ Len(RawAmounts) = 1 THEN ret.val.name
    ELSE ret.val.amounts[k].unit

RECURSIVE FindFrom(_, _, _)
\* the first cursor >= i where w occurs in s, 0 when there is none
FindFrom(s, w, i) ==
    IF i + Len(w) - 1 > Len(s) THEN 0
    ELSE IF SubSeq(s, i, i + Len(w) - 1) = w THEN i
    ELSE FindFrom(s, w, i + 1)

RECURSIVE InTextOrder(_, _)
\* the unit texts of the amounts k.. occur in the input one after the other,
\* from cursor i on
InTextOrder(k, i) ==
    IF k > Len(ret.val.amounts) THEN TRUE
    ELSE LET at == FindFrom(input, UnitText(k), i)
         IN  at # 0 /\ InTextOrder(k + 1, at + Len(UnitText(k)))

\* C5: the amounts of a result are those of the leading group followed by those
\* of the group after the name, one per single amount matched, in the order of
\* the text.
C5_AmountsInTextOrder ==
    Parsed =>
        /\ Len(ret.val.amounts) = Len(RawLead) + Len(RawTrail)
        /\ \A k \in 1..Len(ret.val.amounts) :
               /\ ret.val.amounts[k].value = RawAmounts[k].value
               /\ ret.val.amounts[k].upper_value = RawAmounts[k].upper_value
        /\ InTextOrder(1, 1)

C5_Witness ==
    /\ op = "from_str" /\ ret.ok
    /\ Len(RawLead) = 3 /\ Len(RawTrail) >= 1
    /\ ret.val.amounts[1].unit = <<"g">>
    /\ ret.val.amounts[2].unit = <<"c">>
    /\ ret.val.amounts[3].unit = <<"b">>
    /\ ret.val.amounts[4].unit = <<"d">>

\* the result of parsing t alone with the single-amount parser / the numeral
\* parser, provided the parser consumes all of t
Single(t) == amount1(t, 1)

IsSingle(t) == Single(t).ok /\ Single(t).pos = Len(t) + 1

Numeral(t) == num(t, 1)

IsNumeral(t) == Numeral(t).ok /\ Numeral(t).pos = Len(t) + 1

Separators == {<<";", " ">>, <<" ", "/", " ">>, <<" ">>, <<",", " ">>, <<"/">>}

\* the text is A s B: a single amount, a separator, a single amount
TwoSingles ==
    /\ mode = "amt"
    /\ Typed(1) /\ Typed(2) /\ Typed(3)
    /\ IsSingle(Part(1))
    /\ Part(2) \in Separators
    /\ IsSingle(Part(3))

\* C6: on A s B, A and B single amounts and s one of the five separators,
\* parse_amount returns the two amounts of A and of B, in that order.
C6_TwoAmounts ==
    (op = "parse_amount" /\ TwoSingles)
        => /\ ret.ok
           /\ ret.val = Single(Part(1)).val \o Single(Part(3)).val

C6_Witness ==
    /\ op = "parse_amount" /\ TwoSingles
    /\ Part(2) = <<" ">>
    /\ Part(1) = <<"1", " ", "-", " ", "2", " ", "g">>
    /\ Part(3) = <<"o", "n", "e", " ", "c">>
    /\ ret.ok /\ Len(ret.val) = 2
    /\ ret.val[2].unit = <<"c">>

\* the numerals a and b of a text typed as a range, and its unit
RangeLow == Part(1) \o Part(2) \o Part(3)

RangeHigh == Part(5) \o Part(6) \o Part(7)

\* the text is a, a dash with any blanks around it, b, one blank and a unit
RangeText ==
    /\ mode = "num"
    /\ IsNumeral(RangeLow)
    /\ Typed(4)
    /\ IsNumeral(RangeHigh)
    /\ Typed(8) /\ Part(8)[1] = " "

\* C7: "a-b unit", "a - b unit", "a -b unit" and "a- b unit" all parse to the one
\* amount {value a, upper value b, unit}, whatever the forms of the numerals.
C7_RangeSymmetry ==
    (op = "parse_amount" /\ RangeText)
        => /\ ret.ok
           /\ ret.val = <<Amount(Tail(Part(8)), Numeral(RangeLow).val,
                                 <<Numeral(RangeHigh).val>>)>>

\* the value of a known vulgar-fraction glyph
Known(c) ==
    CASE c = "<3/4>" -> <<3, 4>>
      [] c = "<1/8>" -> <<1, 8>>
      [] c = "<1/4>" -> <<1, 4>>
      [] c = "<1/3>" -> <<1, 3>>
      [] c = "<1/2>" -> <<1, 2>>
      [] OTHER -> <<>>

\* the input starts with a whole number a, blanks and a fraction b/c that ends
\* where the digits of c end: the cursors after a, the blanks, b and c
WholeEnd == RunEnd(input, 1, Digit)

BlanksEnd == RunEnd(input, WholeEnd, Blank)

OverEnd == RunEnd(input, BlanksEnd, Digit)

UnderEnd == RunEnd(input, OverEnd + 1, Digit)

MixedSlash ==
    /\ WholeEnd > 1 /\ BlanksEnd > WholeEnd /\ OverEnd > BlanksEnd
    /\ At(input, OverEnd) = "/"
    /\ UnderEnd > OverEnd + 1
    /\ At(input, UnderEnd) \notin {".", "e", "E"}

MixedSlashVal ==
    RAdd(RInt(DigitsVal(input, 1, WholeEnd)),
         Norm(DigitsVal(input, BlanksEnd, OverEnd),
              DigitsVal(input, OverEnd + 1, UnderEnd)))

\* the input starts with a whole number a, any blanks and a known glyph
MixedGlyph == WholeEnd > 1 /\ Known(At(input, BlanksEnd)) # <<>>

MixedGlyphVal ==
    RAdd(RInt(DigitsVal(input, 1, WholeEnd)), Known(At(input, BlanksEnd)))

\* C8: the numeral parser takes a mixed number as a whole: "a b/c" yields
\* a + b/c and "a", any blanks and a known glyph yield a + the glyph's value;
\* it never stops after the whole number.
C8_MixedNumber ==
    op = "num" =>
        /\ MixedSlash =>
               ret.ok /\ ret.val = MixedSlashVal /\ ret.pos = UnderEnd
        /\ MixedGlyph =>
               ret.ok /\ ret.val = MixedGlyphVal /\ ret.pos = BlanksEnd + 1

C8_Witness ==
    /\ op = "num" /\ MixedSlash
    /\ input = <<"1", "2", " ", " ", "2", "/", "3">>
    /\ ret.val = <<38, 3>>

\* the amounts rendered "<value> <unit>" and joined by " / "
RECURSIVE AmountPart(_)
AmountPart(amounts) ==
    IF amounts = <<>> THEN <<>>
    ELSE f32_to_string(amounts[1].value) \o <<" ">> \o amounts[1].unit
             \o (IF Len(amounts) = 1 THEN <<>>
                 ELSE <<" ", "/", " ">> \o AmountPart(Tail(amounts)))

\* C9: an Ingredient is rendered as the amount part, one space, the name and,
\* when there is a modifier, ", " and the modifier; the amount part is the
\* amounts joined by " / ", or "n/a" when there is none.
C9_Rendering ==
    op = "to_string" =>
        shown = (IF ret.val.amounts = <<>> THEN <<"n", "/", "a">>
                 ELSE AmountPart(ret.val.amounts))
                    \o <<" ">> \o ret.val.name
                    \o (IF ret.val.modifier = <<>> THEN <<>>
                        ELSE <<",", " ">> \o ret.val.modifier[1])

\* C10: the modifier of a result is absent or a text of at least one character;
\* a remainder of length zero, as on a line that ends with ", ", is absent.
C10_ModifierNotEmpty ==
    Parsed =>
        /\ ret.val.modifier = <<>> \/ Len(ret.val.modifier[1]) >= 1
        /\ ret.raw.next_input - Len(ret.raw.modifier_chunks) = ret.raw.next_input
               => ret.val.modifier = <<>>
        /\ (Len(input) >= 2 /\ ret.raw.comma
                /\ SubSeq(input, Len(input) - 1, Len(input)) = <<",", " ">>
                /\ ret.raw.next_input = Len(input) + 1
                /\ ret.raw.modifier_chunks = <<>>)
               => ret.val.modifier = <<>>

C10_Witness ==
    /\ op = "from_str" /\ ret.ok
    /\ Len(input) >= 4
    /\ SubSeq(input, Len(input) - 1, Len(input)) = <<",", " ">>
    /\ ret.raw.comma
    /\ ret.raw.modifier_chunks = <<>>
    /\ ret.val.modifier = <<>>
    /\ ret.val.name # <<>>

\* the cursor after the group matched after the name: where the separator or
\* the modifier text starts
GroupEnd ==
    ret.raw.next_input - Len(ret.raw.modifier_chunks)
        - (IF ret.raw.comma THEN 2 ELSE 0)

\* C11: when the parenthesized group after the name position matches, its text
\* goes to the amounts only: the name is the trimmed name text before the
\* group and the modifier, if any, is text after the group's ")".
C11_GroupOnlyInAmounts ==
    (Parsed /\ ret.raw.amounts2 # <<>>)
        => /\ At(input, GroupEnd - 1) = ")"
           /\ ret.val.name = RawName
           /\ ret.val.modifier # <<>>
                  => ret.val.modifier[1] = Slice(input, Len(input) + 1
                         - Len(ret.val.modifier[1]), Len(input) + 1)
                     /\ Len(input) + 1 - Len(ret.val.modifier[1]) >= GroupEnd

\* the exact value of a glyph of the accepted ranges: its fraction when it is
\* one of the five known glyphs, 0 otherwise
GlyphVal(c) == IF Known(c) # <<>> THEN Known(c) ELSE RInt(0)

\* the input starts with a decimal number a (digits, or digits "." digits):
\* the cursor after it and its value
DecEnd ==
    IF At(input, WholeEnd) = "." /\ At(input, WholeEnd + 1) \in Digit
    THEN RunEnd(input, WholeEnd + 1, Digit)
    ELSE WholeEnd

DecVal ==
    IF DecEnd = WholeEnd THEN RInt(DigitsVal(input, 1, WholeEnd))
    ELSE RAdd(RInt(DigitsVal(input, 1, WholeEnd)),
              Norm(DigitsVal(input, WholeEnd + 1, DecEnd),
                   Pow10(DecEnd - WholeEnd - 1)))

\* the cursor of the glyph that follows a and any blanks
GlyphAt == RunEnd(input, DecEnd, Blank)

\* C12: a glyph of the accepted ranges that is not one of the five known ones
\* never makes the numeral parser fail: alone it is consumed and yields 0, after
\* a number a (and any blanks) it yields a + 0; a known glyph yields its exact
\* fraction.
C12_UnknownGlyphIsZero ==
    op = "num" =>
        /\ is_frac_char(At(input, 1)) =>
               ret.ok /\ ret.pos = 2 /\ ret.val = GlyphVal(input[1])
        /\ (WholeEnd > 1 /\ is_frac_char(At(input, GlyphAt))) =>
               /\ ret.ok /\ ret.pos = GlyphAt + 1
               /\ ret.val = RAdd(DecVal, GlyphVal(input[GlyphAt]))

C12_Witness ==
    /\ op = "num"
    /\ input = <<"2", ".", "5", " ", "<1/7>">>
    /\ ret.ok /\ ret.pos = 6 /\ ret.val = <<5, 2>>

\* a well-formed list of amounts: units are texts, values are numbers, the
\* upper value is absent or one number
IsValue(v) == v \in Seq(Int) /\ Len(v) = 2

IsAmounts(l) ==
    /\ DOMAIN l = 1..Len(l)
    /\ \A k \in 1..Len(l) :
           /\ DOMAIN l[k] = {"unit", "value", "upper_value"}
           /\ IsValue(l[k].value)
           /\ l[k].upper_value = <<>>
                  \/ (Len(l[k].upper_value) = 1 /\ IsValue(l[k].upper_value[1]))

\* C13: from_str and parse_amount are total: on every text the call returns a
\* value or an error and never panics; the normalization reads the first
\* amount only when the list of amounts is not empty.
C13_Total ==
    /\ op \in {"from_str", "to_string"} =>
           /\ ~ret.panic
           /\ ret.ok \in BOOLEAN
           /\ ret.ok => IsAmounts(ret.val.amounts)
           /\ (ret.ok /\ RawAmounts = <<>>) =>
                  ret.val.amounts = <<>> /\ ret.val.name = RawName
    /\ op = "parse_amount" =>
           /\ ret.ok \in BOOLEAN
           /\ IsAmounts(ret.val)
           /\ ~ret.ok => ret.val = <<>>

C13_Witness ==
    /\ op = "from_str"
    /\ input = <<"(", ")">>
    /\ ret.ok /\ ~ret.panic
    /\ RawName = <<>> /\ RawAmounts = <<>>
    /\ ret.val.amounts = <<>>

RECURSIVE Opens(_)
\* the number of "(" in a text
Opens(s) ==
    IF s = <<>> THEN 0
    ELSE (IF Head(s) = "(" THEN 1 ELSE 0) + Opens(Tail(s))

C15_NameNotEmpty ==
    Parsed =>
        /\ (ret.raw.name_chunks # <<>> \/ Len(RawAmounts) = 1)
               => ret.val.name # <<>>
        /\ ret.val.name = <<>>
               => ret.raw.name_chunks = <<>> /\ Len(ret.val.amounts) # 1
        /\ ret.val.name # <<>>
               => /\ ret.val.name[1] # " "
                  /\ ret.val.name[Len(ret.val.name)] # " "

C15_Witness ==
    /\ op = "from_str" /\ ret.ok
    /\ ret.raw.name_chunks # <<>>
    /\ ret.raw.name_chunks[1] = <<"x", " ">>
    /\ Len(RawAmounts) = 1
    /\ ret.val.name = <<"x">>

\* the text parse_n_amount consumed from the input
Consumed == Slice(input, 1, parse_n_amount(input, 1).pos)

\* C16: parse_amount accepts a matching prefix and discards the rest: it
\* returns Ok whenever an amount matches at position 0, whatever follows, an
\* error only when no single amount matches there, and the list it returns is
\* that of the consumed prefix alone.
C16_PrefixAccepted ==
    op = "parse_amount" =>
        /\ amount1(input, 1).ok => ret.ok
        /\ ~ret.ok => ~amount1(input, 1).ok
        /\ ret.ok => parse_amount(Consumed) = ret

====
